---- MODULE Spec2Model ----
(***************************************************************************)
(* Model of client/perf/wave4_ios_perf.py: the Wave 4 iOS runtime          *)
(* profiling tool.  main() runs collect_startup_runs, then                 *)
(* collect_transition_rounds, then assembles and writes the reports.       *)
(* The page is the environment.  Its pathname may change between any two   *)
(* steps of the host program; what a selector matches is an input of the   *)
(* step that queries it, since the app may re-render between any two       *)
(* queries.                                                                *)
(***************************************************************************)
EXTENDS Integers, Sequences, FiniteSets, TLC

\* ---------------------------------------------------------------- bounds
MaxStartupRuns == 2
MaxTransitionRounds == 1
MaxAggRuns == 3
MaxAggEntries == 4
MaxFrameDeltas == 4
MaxLateTicks == 1

\* ------------------------------------------------------ program constants
NULL == "null"
\* Python's None / an absent value, and a present value, for values that are
\* not strings
None == <<>>
Some(v) == <<v>>

AUTH_ENTRY_ROUTE == "/signin"

SEL_SIGNUP == "a[href=\"/signup\"]"
SEL_SIGNIN == "a[href=\"/signin\"]"
SEL_FORGOT == "a[href=\"/forgot-password\"]"

Routes == {"/signin", "/signup", "/forgot-password"}
Selectors == {SEL_SIGNUP, SEL_SIGNIN, SEL_FORGOT}

AUTH_ROUTE_MARKERS ==
  [r \in Routes |->
     CASE r = "/signin" -> SEL_SIGNUP
       [] r = "/signup" -> SEL_SIGNIN
       [] r = "/forgot-password" -> SEL_SIGNIN]

TRANSITIONS ==
  << <<"/signin", "/signup", SEL_SIGNUP>>,
     <<"/signup", "/signin", SEL_SIGNIN>>,
     <<"/signin", "/forgot-password", SEL_FORGOT>>,
     <<"/forgot-password", "/signin", SEL_SIGNIN>> >>

\* ------------------------------------------------------------ environment
\* window.location.pathname of the page; a fresh page is about:blank, whose
\* pathname is "blank".
Paths == Routes \cup {"blank"}
\* What document.querySelectorAll(sel) finds: no element, only elements that
\* fail the visibility test, or at least one visible element.
ElemStates == {"none", "hidden", "visible"}

VARIABLES
  pc,                 \* position of the host program
  collector,          \* "none", "startup" or "transitions": the running collector
  startup_runs,       \* args.startup_runs
  transition_rounds,  \* args.transition_rounds
  run_id,             \* loop variable of collect_startup_runs
  round_id,           \* loop variable of collect_transition_rounds
  edge_idx,           \* position in TRANSITIONS of the inner loop
  runs,               \* list built by collect_startup_runs
  rounds,             \* list built by collect_transition_rounds
  transition_entries, \* list built for the current round
  exc,                \* the exception in flight, or "none"
  browsersLaunched,   \* number of pw.webkit.launch calls so far
  browserOpen,        \* set of launched browsers not yet closed
  browserCloses,      \* number of browser.close() calls so far
  contextsCreated,    \* number of browser.new_context calls so far
  context,            \* the local variable `context` (id of a context), 0 if unset
  ctxOpen,            \* set of browsing contexts that are open
  ctxCloseRan,        \* set of contexts on which context.close() has run
  ctxOwner,           \* context id -> <<collector, run or round index>>
  ops,                \* page operations of the current run: goto, snapshot, fps
  path,               \* window.location.pathname
  gateRoute,          \* argument `route` of the running wait_for_route_ready
  gateRet,            \* where wait_for_route_ready returns to
  gateSeen,           \* what the running gate observed when each wait passed
  lastReady,          \* route of the last gate passed since the last page.goto
  navigation,         \* result of NAVIGATION_METRICS_JS in the current run
  startup_fps,        \* result of FPS_SAMPLE_JS in the current run
  matched,            \* what the trigger selector matched when TRANSITION_FPS_JS looked
  clicked,            \* what TRANSITION_FPS_JS clicked for the current edge
  navEnd,             \* local navEnd of TRANSITION_FPS_JS
  result,             \* value returned by TRANSITION_FPS_JS
  written,            \* report files written so far
  aggRuns,            \* argument of aggregate_startup
  aggSummary,         \* value returned (or exception raised) by aggregate_startup
  aggRounds,          \* argument of aggregate_transitions
  aggEdges,           \* value returned by aggregate_transitions
  frameStamps,        \* the frame timestamps a sampler has captured (ms)
  sample,             \* the frame-rate fields a sampler returns
  clock,              \* performance.now() in the page (ms)
  sampleMs,           \* argument sampleMs of TRANSITION_FPS_JS
  timeoutMs,          \* argument timeoutMs of TRANSITION_FPS_JS
  durationMs,         \* argument durationMs of FPS_SAMPLE_JS
  startPath,          \* local startPath of TRANSITION_FPS_JS
  navStart,           \* local navStart of TRANSITION_FPS_JS
  navEndAt,           \* local navEnd of TRANSITION_FPS_JS as a clock value
  wakeAt              \* when the pending setTimeout is due

argVars == <<startup_runs, transition_rounds>>
loopVars == <<run_id, round_id, edge_idx>>
listVars == <<runs, rounds, transition_entries>>
browserVars == <<browsersLaunched, browserOpen, browserCloses>>
ctxVars == <<contextsCreated, context, ctxOpen, ctxCloseRan, ctxOwner>>
pageVars == <<path>>
gateVars == <<gateRoute, gateRet, gateSeen, lastReady>>
measVars == <<navigation, startup_fps, matched, clicked, navEnd, result>>
aggVars == <<aggRuns, aggSummary, aggRounds, aggEdges>>
jsVars == <<frameStamps, sample, clock, sampleMs, timeoutMs, durationMs, startPath,
           navStart, navEndAt, wakeAt>>

vars == <<pc, collector, argVars, loopVars, listVars, exc, browserVars,
          ctxVars, ops, pageVars, gateVars, measVars, written, aggVars, jsVars>>

\* no TRANSITION_FPS_JS call is being followed step by step
SamplerIdle ==
  /\ clock = 0 /\ sampleMs = 0 /\ timeoutMs = 0 /\ durationMs = 0
  /\ startPath = NULL /\ navStart = 0 /\ navEndAt = None /\ wakeAt = 0

NoOps == [goto |-> 0, snapshot |-> 0, fps |-> 0]
NoGate == [pathAtPathOk |-> NULL, pathAtMarkerOk |-> NULL, markerAtMarkerOk |-> NULL]

Init ==
  /\ pc = "main"
  /\ collector = "none"
  /\ startup_runs \in 0..MaxStartupRuns
  /\ transition_rounds \in 0..MaxTransitionRounds
  /\ run_id = 0 /\ round_id = 0 /\ edge_idx = 0
  /\ runs = <<>> /\ rounds = <<>> /\ transition_entries = <<>>
  /\ exc = "none"
  /\ browsersLaunched = 0 /\ browserOpen = {} /\ browserCloses = 0
  /\ contextsCreated = 0 /\ context = 0 /\ ctxOpen = {} /\ ctxCloseRan = {}
  /\ ctxOwner = <<>>
  /\ ops = NoOps
  /\ path = "blank"
  /\ gateRoute = NULL /\ gateRet = NULL /\ gateSeen = NoGate
  /\ lastReady = NULL
  /\ navigation = None /\ startup_fps = NULL
  /\ matched = NULL /\ clicked = "none" /\ navEnd = NULL /\ result = None
  /\ written = {}
  /\ aggRuns = <<>> /\ aggSummary = None
  /\ aggRounds = <<>> /\ aggEdges = None
  /\ frameStamps = <<>> /\ sample = None
  /\ SamplerIdle

\* ------------------------------------------------------------- helpers
\* An exception raised inside a collector's try block runs that collector's
\* finally clause.
FinallyOf(c) == IF c = "startup" THEN "su_finally" ELSE "tr_finally"

\* browser.new_context(...) followed by context.new_page(): a fresh context
\* with a blank page.
NewContext(owner) ==
  /\ contextsCreated' = contextsCreated + 1
  /\ context' = contextsCreated + 1
  /\ ctxOpen' = ctxOpen \cup {contextsCreated + 1}
  /\ ctxOwner' = Append(ctxOwner, owner)
  /\ UNCHANGED ctxCloseRan
  /\ path' = "blank"

\* context.close(): the context and its page are gone
CloseContext ==
  /\ ctxOpen' = ctxOpen \ {context}
  /\ ctxCloseRan' = ctxCloseRan \cup {context}
  /\ UNCHANGED <<contextsCreated, context, ctxOwner>>
  /\ path' = "blank"

\* browser.close(): the browser goes away, and with it every context that
\* belongs to it; no context.close() call is made.
CloseBrowser ==
  /\ browserOpen' = {}
  /\ browserCloses' = browserCloses + 1
  /\ UNCHANGED browsersLaunched
  /\ ctxOpen' = {}
  /\ UNCHANGED <<contextsCreated, context, ctxCloseRan, ctxOwner>>
  /\ path' = "blank"

\* pw.webkit.launch(headless=True)
LaunchBrowser ==
  /\ browsersLaunched' = browsersLaunched + 1
  /\ browserOpen' = browserOpen \cup {browsersLaunched + 1}
  /\ UNCHANGED browserCloses

\* ------------------------------------------------------------ the page
\* The page is alive while its context is open and the host is between the
\* creation of the context and its disposal.
PageAlive == context \in ctxOpen

\* The app (router, redirects, link handlers) changes the pathname.
PagePathChange ==
  /\ PageAlive
  /\ \E p \in Routes : path' = p /\ p # path
  /\ UNCHANGED <<pc, collector, argVars, loopVars, listVars, exc, browserVars,
                 ctxVars, ops, gateVars, measVars, written, aggVars, jsVars>>

\* -------------------------------------------------- wait_for_route_ready
\* The call wait_for_route_ready(page, route) made from position `ret`.
CallGate(route, ret) ==
  /\ gateRoute' = route
  /\ gateRet' = ret
  /\ gateSeen' = NoGate
  /\ pc' = "gate_path"

\* A wait_for_function that times out raises; nothing in the collector
\* catches it, so control goes to the collector's finally clause.
Raise(kind) ==
  /\ exc' = kind
  /\ pc' = FinallyOf(collector)

\* page.wait_for_function("(path) => window.location.pathname === path") passes
WaitPathOk ==
  /\ pc = "gate_path"
  /\ path = gateRoute
  /\ gateSeen' = [gateSeen EXCEPT !.pathAtPathOk = path]
  /\ pc' = "gate_marker"
  /\ UNCHANGED <<collector, argVars, loopVars, listVars, exc, browserVars,
                 ctxVars, ops, pageVars, gateRoute, gateRet, lastReady, measVars,
                 written, aggVars, jsVars>>

\* ... or its 15000 ms run out while the pathname is still another one
WaitPathTimeout ==
  /\ pc = "gate_path"
  /\ path # gateRoute
  /\ Raise("TimeoutError")
  /\ UNCHANGED <<collector, argVars, loopVars, listVars, browserVars, ctxVars,
                 ops, pageVars, gateVars, measVars, written, aggVars, jsVars>>

\* The predicate of visible_selector_wait, given what the selector matches:
\* some matching element passes the visibility test.
SomeVisible(e) == e = "visible"

\* WaitMarkerOk with a wait that passes as soon as the selector matches
\* anything, visible or not.
WaitMarkerOk_noCheck ==
  /\ pc = "gate_marker"
  /\ \E e \in ElemStates :
       /\ e # "none"
       /\ gateSeen' = [gateSeen EXCEPT !.pathAtMarkerOk = path,
                                       !.markerAtMarkerOk = e]
  /\ pc' = "gate_settle"
  /\ UNCHANGED <<collector, argVars, loopVars, listVars, exc, browserVars,
                 ctxVars, ops, pageVars, gateRoute, gateRet, lastReady, measVars,
                 written, aggVars, jsVars>>

\* visible_selector_wait(page, AUTH_ROUTE_MARKERS[route]) passes
WaitMarkerOk ==
  /\ pc = "gate_marker"
  /\ \E e \in ElemStates :
       /\ SomeVisible(e)
       /\ gateSeen' = [gateSeen EXCEPT !.pathAtMarkerOk = path,
                                       !.markerAtMarkerOk = e]
  /\ pc' = "gate_settle"
  /\ UNCHANGED <<collector, argVars, loopVars, listVars, exc, browserVars,
                 ctxVars, ops, pageVars, gateRoute, gateRet, lastReady, measVars,
                 written, aggVars, jsVars>>

\* ... or its 15000 ms run out with no visible marker
WaitMarkerTimeout ==
  /\ pc = "gate_marker"
  /\ \E e \in ElemStates : ~SomeVisible(e)
  /\ Raise("TimeoutError")
  /\ UNCHANGED <<collector, argVars, loopVars, listVars, browserVars, ctxVars,
                 ops, pageVars, gateVars, measVars, written, aggVars, jsVars>>

\* page.wait_for_timeout(250), then wait_for_route_ready returns
GateSettle ==
  /\ pc = "gate_settle"
  /\ pc' = gateRet
  /\ gateSeen' = NoGate
  /\ gateRoute' = NULL
  /\ gateRet' = NULL
  /\ lastReady' = gateRoute
  /\ UNCHANGED <<collector, argVars, loopVars, listVars, exc, browserVars,
                 ctxVars, ops, pageVars, measVars, written, aggVars, jsVars>>

\* --------------------------------------------------- collect_startup_runs
\* main calls collect_startup_runs: runs = [], the browser is launched
SuLaunch ==
  /\ pc = "main"
  /\ collector' = "startup"
  /\ runs' = <<>>
  /\ LaunchBrowser
  /\ run_id' = 1
  /\ pc' = "su_loop"
  /\ UNCHANGED <<argVars, round_id, edge_idx, rounds, transition_entries, exc,
                 ctxVars, ops, pageVars, gateVars, measVars, written, aggVars, jsVars>>

\* for run_id in range(1, startup_runs + 1): new context, new page
SuNewContext ==
  /\ pc = "su_loop"
  /\ run_id <= startup_runs
  /\ NewContext(<<"startup", run_id>>)
  /\ ops' = NoOps
  /\ navigation' = None /\ startup_fps' = NULL
  /\ pc' = "su_goto"
  /\ UNCHANGED <<collector, argVars, loopVars, listVars, exc, browserVars,
                 gateVars, matched, clicked, navEnd, result, written, aggVars, jsVars>>

\* the range is exhausted: leave the try block normally
SuLoopExit ==
  /\ pc = "su_loop"
  /\ run_id > startup_runs
  /\ pc' = "su_finally"
  /\ UNCHANGED <<collector, argVars, loopVars, listVars, exc, browserVars,
                 ctxVars, ops, pageVars, gateVars, measVars, written, aggVars, jsVars>>

\* page.goto(base_url + route, wait_until="domcontentloaded"): the document
\* that loads may be at any route of the app (redirects); or
\* the navigation fails and goto raises.
Goto(ok, p, next) ==
  IF ok
    THEN /\ path' = p
         /\ lastReady' = NULL
         /\ next
         /\ UNCHANGED exc
    ELSE /\ Raise("NavigationError")
         /\ UNCHANGED <<pageVars, gateVars>>

\* page.goto(AUTH_ENTRY_ROUTE); wait_for_route_ready(page, AUTH_ENTRY_ROUTE)
SuGoto ==
  /\ pc = "su_goto"
  /\ \E ok \in BOOLEAN, p \in Routes :
       /\ Goto(ok, p, CallGate(AUTH_ENTRY_ROUTE, "su_nav_metrics"))
       /\ ops' = IF ok THEN [ops EXCEPT !.goto = @ + 1] ELSE ops
  /\ UNCHANGED <<collector, argVars, loopVars, listVars, browserVars, ctxVars,
                 measVars, written, aggVars, jsVars>>

\* navigation = page.evaluate(NAVIGATION_METRICS_JS): the navigation entry
\* may be absent
SuNavMetrics ==
  /\ pc = "su_nav_metrics"
  /\ \E nav \in {NULL, "entry"} :
       navigation' = [navigation |-> nav]
  /\ ops' = [ops EXCEPT !.snapshot = @ + 1]
  /\ pc' = "su_fps"
  /\ UNCHANGED <<collector, argVars, loopVars, listVars, exc, browserVars,
                 ctxVars, pageVars, gateVars, startup_fps, matched, clicked, navEnd,
                 result, written, aggVars, jsVars>>

\* startup_fps = page.evaluate(FPS_SAMPLE_JS, {durationMs})
SuFps ==
  /\ pc = "su_fps"
  /\ startup_fps' = "sample"
  /\ ops' = [ops EXCEPT !.fps = @ + 1]
  /\ pc' = "su_record"
  /\ UNCHANGED <<collector, argVars, loopVars, listVars, exc, browserVars,
                 ctxVars, pageVars, gateVars, navigation, matched, clicked, navEnd,
                 result, written, aggVars, jsVars>>

\* SuRecord without the context.close() call.
SuRecord_noClose ==
  /\ pc = "su_record"
  /\ runs' = Append(runs, [run |-> run_id,
                           navigation |-> navigation.navigation,
                           context |-> context,
                           ops |-> ops])
  /\ run_id' = run_id + 1
  /\ pc' = "su_loop"
  /\ navigation' = None /\ startup_fps' = NULL
  /\ UNCHANGED <<collector, argVars, round_id, edge_idx, rounds,
                 transition_entries, exc, browserVars, ctxVars, ops, pageVars,
                 gateVars, matched, clicked, navEnd, result, written, aggVars, jsVars>>

\* SuRecord with a zero-based run index in the record.
SuRecord_zeroBased ==
  /\ pc = "su_record"
  /\ runs' = Append(runs, [run |-> run_id - 1,
                           navigation |-> navigation.navigation,
                           context |-> context,
                           ops |-> ops])
  /\ CloseContext
  /\ run_id' = run_id + 1
  /\ pc' = "su_loop"
  /\ navigation' = None /\ startup_fps' = NULL
  /\ UNCHANGED <<collector, argVars, round_id, edge_idx, rounds,
                 transition_entries, exc, browserVars, ops, gateVars,
                 matched, clicked, navEnd, result, written, aggVars, jsVars>>

\* runs.append({...}); context.close(); next iteration
SuRecord ==
  /\ pc = "su_record"
  /\ runs' = Append(runs, [run |-> run_id,
                           navigation |-> navigation.navigation,
                           context |-> context,
                           ops |-> ops])
  /\ CloseContext
  /\ run_id' = run_id + 1
  /\ pc' = "su_loop"
  /\ navigation' = None /\ startup_fps' = NULL
  /\ UNCHANGED <<collector, argVars, round_id, edge_idx, rounds,
                 transition_entries, exc, browserVars, ops, gateVars,
                 matched, clicked, navEnd, result, written, aggVars, jsVars>>

\* SuFinally without the browser.close() call.
SuFinally_noClose ==
  /\ pc = "su_finally"
  /\ collector' = "none"
  /\ pc' = IF exc = "none" THEN "call_transitions" ELSE "aborted"
  /\ UNCHANGED <<argVars, loopVars, listVars, exc, browserVars, ctxVars, ops,
                 pageVars, gateVars, measVars, written, aggVars, jsVars>>

\* finally: browser.close(); then return runs, or re-raise
SuFinally ==
  /\ pc = "su_finally"
  /\ CloseBrowser
  /\ collector' = "none"
  /\ pc' = IF exc = "none" THEN "call_transitions" ELSE "aborted"
  /\ UNCHANGED <<argVars, loopVars, listVars, exc, ops, gateVars,
                 measVars, written, aggVars, jsVars>>

\* ---------------------------------------------- collect_transition_rounds
\* main calls collect_transition_rounds: rounds = [], a browser is launched
TrLaunch ==
  /\ pc = "call_transitions"
  /\ collector' = "transitions"
  /\ rounds' = <<>>
  /\ LaunchBrowser
  /\ round_id' = 1
  /\ pc' = "tr_loop"
  /\ UNCHANGED <<argVars, run_id, edge_idx, runs, transition_entries, exc,
                 ctxVars, ops, pageVars, gateVars, measVars, written, aggVars, jsVars>>

\* for round_id in range(1, transition_rounds + 1): new context, new page
TrNewContext ==
  /\ pc = "tr_loop"
  /\ round_id <= transition_rounds
  /\ NewContext(<<"transitions", round_id>>)
  /\ ops' = NoOps
  /\ pc' = "tr_goto"
  /\ UNCHANGED <<collector, argVars, loopVars, listVars, exc, browserVars,
                 gateVars, measVars, written, aggVars, jsVars>>

\* the range is exhausted: leave the try block normally
TrLoopExit ==
  /\ pc = "tr_loop"
  /\ round_id > transition_rounds
  /\ pc' = "tr_finally"
  /\ UNCHANGED <<collector, argVars, loopVars, listVars, exc, browserVars,
                 ctxVars, ops, pageVars, gateVars, measVars, written, aggVars, jsVars>>

\* page.goto(AUTH_ENTRY_ROUTE); wait_for_route_ready(page, AUTH_ENTRY_ROUTE)
TrGoto ==
  /\ pc = "tr_goto"
  /\ \E ok \in BOOLEAN, p \in Routes :
       Goto(ok, p, CallGate(AUTH_ENTRY_ROUTE, "tr_entries"))
  /\ UNCHANGED <<collector, argVars, loopVars, listVars, browserVars, ctxVars,
                 ops, measVars, written, aggVars, jsVars>>

\* transition_entries = []; the inner loop starts at the first edge
TrEntries ==
  /\ pc = "tr_entries"
  /\ transition_entries' = <<>>
  /\ edge_idx' = 1
  /\ pc' = "tr_edge"
  /\ UNCHANGED <<collector, argVars, run_id, round_id, runs, rounds, exc,
                 browserVars, ctxVars, ops, pageVars, gateVars, measVars,
                 written, aggVars, jsVars>>

source_route == TRANSITIONS[edge_idx][1]
expected_route == TRANSITIONS[edge_idx][2]
selector == TRANSITIONS[edge_idx][3]

\* if page.evaluate("() => window.location.pathname") != source_route
TrEdge ==
  /\ pc = "tr_edge"
  /\ edge_idx <= Len(TRANSITIONS)
  /\ pc' = IF path # source_route THEN "tr_src_goto" ELSE "tr_sampler"
  /\ UNCHANGED <<collector, argVars, loopVars, listVars, exc, browserVars,
                 ctxVars, ops, pageVars, gateVars, measVars, written, aggVars, jsVars>>

\* page.goto(source_route) with no wait_for_route_ready after it
TrSrcGoto_noGate ==
  /\ pc = "tr_src_goto"
  /\ \E ok \in BOOLEAN, p \in Routes :
       Goto(ok, p, /\ pc' = "tr_sampler"
                   /\ UNCHANGED <<gateRoute, gateRet, gateSeen>>)
  /\ UNCHANGED <<collector, argVars, loopVars, listVars, browserVars, ctxVars,
                 ops, measVars, written, aggVars, jsVars>>

\* page.goto(source_route); wait_for_route_ready(page, source_route)
TrSrcGoto ==
  /\ pc = "tr_src_goto"
  /\ \E ok \in BOOLEAN, p \in Routes :
       Goto(ok, p, CallGate(source_route, "tr_sampler"))
  /\ UNCHANGED <<collector, argVars, loopVars, listVars, browserVars, ctxVars,
                 ops, measVars, written, aggVars, jsVars>>

\* TRANSITION_FPS_JS: candidates.find(isVisible) || candidates[0] || null
\* given what the selector matches: a visible element if there is one, else
\* the first matching element (a hidden one), else no target
FindTarget(e) ==
  CASE e = "visible" -> "visible"
    [] e = "hidden" -> "hidden"
    [] OTHER -> "none"

\* page.evaluate(TRANSITION_FPS_JS, ...) up to target.click(): without a
\* target the script returns {error}; otherwise it starts the frame capture
\* and clicks the target.
SamplerClick ==
  /\ pc = "tr_sampler"
  /\ \E e \in ElemStates :
     LET target == FindTarget(e) IN
       /\ matched' = e
       /\ IF target = "none"
         THEN /\ result' = [error |-> TRUE]
              /\ pc' = "tr_check"
              /\ clicked' = "none"
              /\ UNCHANGED navEnd
         ELSE /\ clicked' = target
              /\ navEnd' = NULL
              /\ result' = None
              /\ pc' = "tr_pathwait"
  /\ UNCHANGED <<collector, argVars, loopVars, listVars, exc, browserVars,
                 ctxVars, ops, pageVars, gateVars, navigation, startup_fps,
                 written, aggVars, jsVars>>

\* the polling loop sees window.location.pathname === expectedPath before
\* navDeadline: navEnd is set
SamplerPathReached ==
  /\ pc = "tr_pathwait"
  /\ path = expected_route
  /\ navEnd' = "ms"
  /\ pc' = "tr_sample_rest"
  /\ UNCHANGED <<collector, argVars, loopVars, listVars, exc, browserVars,
                 ctxVars, ops, pageVars, gateVars, navigation, startup_fps,
                 matched, clicked, result, written, aggVars, jsVars>>

\* SamplerPathTimeout with a script that reports the timeout as an error.
SamplerPathTimeout_fatal ==
  /\ pc = "tr_pathwait"
  /\ path # expected_route
  /\ result' = [error |-> TRUE]
  /\ pc' = "tr_check"
  /\ UNCHANGED <<collector, argVars, loopVars, listVars, exc, browserVars,
                 ctxVars, ops, pageVars, gateVars, navigation, startup_fps,
                 matched, clicked, navEnd, written, aggVars, jsVars>>

\* the polling loop ends at navDeadline without having seen the expected
\* path: navEnd stays null
SamplerPathTimeout ==
  /\ pc = "tr_pathwait"
  /\ path # expected_route
  /\ navEnd' = NULL
  /\ pc' = "tr_sample_rest"
  /\ UNCHANGED <<collector, argVars, loopVars, listVars, exc, browserVars,
                 ctxVars, ops, pageVars, gateVars, navigation, startup_fps,
                 matched, clicked, result, written, aggVars, jsVars>>

\* the rest of the sample window, then the script returns its measurement
SamplerReturn ==
  /\ pc = "tr_sample_rest"
  /\ result' = [error |-> FALSE, navigationDurationMs |-> navEnd]
  /\ pc' = "tr_check"
  /\ UNCHANGED <<collector, argVars, loopVars, listVars, exc, browserVars,
                 ctxVars, ops, pageVars, gateVars, navigation, startup_fps,
                 matched, clicked, navEnd, written, aggVars, jsVars>>

\* TrCheck with a collector that records the measurement without waiting
\* for the destination route to be ready.
TrCheck_noGate ==
  /\ pc = "tr_check"
  /\ IF result.error
       THEN /\ Raise("RuntimeError")
            /\ UNCHANGED gateVars
       ELSE /\ pc' = "tr_append"
            /\ UNCHANGED <<exc, gateVars>>
  /\ UNCHANGED <<collector, argVars, loopVars, listVars, browserVars, ctxVars,
                 ops, pageVars, measVars, written, aggVars, jsVars>>

\* TrCheck with a collector that skips the edge whose sampler reported an
\* error instead of raising.
TrCheck_skip ==
  /\ pc = "tr_check"
  /\ IF result.error
       THEN /\ pc' = "tr_edge"
            /\ edge_idx' = edge_idx + 1
            /\ UNCHANGED <<gateVars, exc>>
       ELSE /\ CallGate(expected_route, "tr_append")
            /\ UNCHANGED <<exc, edge_idx, lastReady>>
  /\ UNCHANGED <<collector, argVars, run_id, round_id, listVars, browserVars,
                 ctxVars, ops, pageVars, measVars, written, aggVars, jsVars>>

\* if result.get("error"): raise RuntimeError; else
\* wait_for_route_ready(page, expected_route)
TrCheck ==
  /\ pc = "tr_check"
  /\ IF result.error
       THEN /\ Raise("RuntimeError")
            /\ UNCHANGED gateVars
       ELSE /\ CallGate(expected_route, "tr_append")
            /\ UNCHANGED <<exc, lastReady>>
  /\ UNCHANGED <<collector, argVars, loopVars, listVars, browserVars, ctxVars,
                 ops, pageVars, measVars, written, aggVars, jsVars>>

\* TrAppend with a collector that drops a measurement whose path-change
\* wait timed out.
TrAppend_dropNull ==
  /\ pc = "tr_append"
  /\ transition_entries' =
       IF result.navigationDurationMs = NULL
         THEN transition_entries
         ELSE Append(transition_entries,
                     [from |-> source_route, to |-> expected_route,
                      selector |-> selector, metrics |-> result])
  /\ edge_idx' = edge_idx + 1
  /\ matched' = NULL /\ clicked' = "none" /\ navEnd' = NULL /\ result' = None
  /\ pc' = "tr_edge"
  /\ UNCHANGED <<collector, argVars, run_id, round_id, runs, rounds, exc,
                 browserVars, ctxVars, ops, pageVars, gateVars, navigation,
                 startup_fps, written, aggVars, jsVars>>

\* transition_entries.append({from, to, selector, metrics}); next edge
TrAppend ==
  /\ pc = "tr_append"
  /\ transition_entries' =
       Append(transition_entries,
              [from |-> source_route, to |-> expected_route,
               selector |-> selector, metrics |-> result])
  /\ edge_idx' = edge_idx + 1
  /\ matched' = NULL /\ clicked' = "none" /\ navEnd' = NULL /\ result' = None
  /\ pc' = "tr_edge"
  /\ UNCHANGED <<collector, argVars, run_id, round_id, runs, rounds, exc,
                 browserVars, ctxVars, ops, pageVars, gateVars, navigation,
                 startup_fps, written, aggVars, jsVars>>

\* the edges are exhausted: rounds.append({round, transitions});
\* context.close(); next round
TrRecord ==
  /\ pc = "tr_edge"
  /\ edge_idx > Len(TRANSITIONS)
  /\ rounds' = Append(rounds, [round |-> round_id,
                               transitions |-> transition_entries,
                               context |-> context])
  /\ CloseContext
  /\ round_id' = round_id + 1
  /\ pc' = "tr_loop"
  /\ UNCHANGED <<collector, argVars, run_id, edge_idx, runs,
                 transition_entries, exc, browserVars, ops, gateVars,
                 measVars, written, aggVars, jsVars>>

\* TrFinally without the browser.close() call.
TrFinally_noClose ==
  /\ pc = "tr_finally"
  /\ collector' = "none"
  /\ pc' = IF exc = "none" THEN "report" ELSE "aborted"
  /\ UNCHANGED <<argVars, loopVars, listVars, exc, browserVars, ctxVars, ops,
                 pageVars, gateVars, measVars, written, aggVars, jsVars>>

\* TrFinally with a collector that swallows the exception and returns the
\* rounds collected so far.
TrFinally_swallow ==
  /\ pc = "tr_finally"
  /\ CloseBrowser
  /\ collector' = "none"
  /\ pc' = "report"
  /\ UNCHANGED <<argVars, loopVars, listVars, exc, ops, gateVars,
                 measVars, written, aggVars, jsVars>>

\* finally: browser.close(); then return rounds, or re-raise
TrFinally ==
  /\ pc = "tr_finally"
  /\ CloseBrowser
  /\ collector' = "none"
  /\ pc' = IF exc = "none" THEN "report" ELSE "aborted"
  /\ UNCHANGED <<argVars, loopVars, listVars, exc, ops, gateVars,
                 measVars, written, aggVars, jsVars>>

\* ------------------------------------------------------------------ main
\* report = {...}; write_json(output_json, report)
WriteJson ==
  /\ pc = "report"
  /\ written' = written \cup {"json"}
  /\ pc' = "write_md"
  /\ UNCHANGED <<collector, argVars, loopVars, listVars, exc, browserVars,
                 ctxVars, ops, pageVars, gateVars, measVars, aggVars, jsVars>>

\* write_markdown(output_md, build_markdown(report)); main returns
WriteMarkdown ==
  /\ pc = "write_md"
  /\ written' = written \cup {"md"}
  /\ pc' = "done"
  /\ UNCHANGED <<collector, argVars, loopVars, listVars, exc, browserVars,
                 ctxVars, ops, pageVars, gateVars, measVars, aggVars, jsVars>>

Next ==
  \/ PagePathChange
  \/ WaitPathOk
  \/ WaitPathTimeout
  \/ WaitMarkerOk
  \/ WaitMarkerTimeout
  \/ GateSettle
  \/ SuLaunch
  \/ SuNewContext
  \/ SuLoopExit
  \/ SuGoto
  \/ SuNavMetrics
  \/ SuFps
  \/ SuRecord
  \/ SuFinally
  \/ TrLaunch
  \/ TrNewContext
  \/ TrLoopExit
  \/ TrGoto
  \/ TrEntries
  \/ TrEdge
  \/ TrSrcGoto
  \/ SamplerClick
  \/ SamplerPathReached
  \/ SamplerPathTimeout
  \/ SamplerReturn
  \/ TrCheck
  \/ TrAppend
  \/ TrRecord
  \/ TrFinally
  \/ WriteJson
  \/ WriteMarkdown

Spec == Init /\ [][Next]_vars

\* ------------------------------------------------------ aggregate_startup
\* Timing values are whole numbers of thousandths of a millisecond, the
\* precision NAVIGATION_METRICS_JS leaves with toFixed(3); ratios are whole
\* numbers of ten-thousandths.  A nullable number is None or Some(v); a dict
\* is a function whose domain is its set of keys.
nav_fields ==
  <<"responseStart", "responseEnd", "domInteractive",
    "domContentLoadedEventEnd", "domComplete", "loadEventEnd">>
paint_fields == <<"first-paint", "first-contentful-paint">>
fps_fields == <<"avgFps", "p95FrameMs", "droppedFrameRatio">>

\* dict.get(key): the value, or None when the key is absent
Get(d, k) == IF k \in DOMAIN d THEN d[k] ELSE None

\* truth value of an optional dict: None and the empty dict are false
Truthy(od) == od # None /\ DOMAIN od[1] # {}

\* sorted(data) for a list of numbers
RECURSIVE Insert(_, _)
Insert(v, sorted) ==
  IF sorted = <<>> THEN <<v>>
  ELSE IF v <= Head(sorted) THEN <<v>> \o sorted
  ELSE <<Head(sorted)>> \o Insert(v, Tail(sorted))

RECURSIVE Sorted(_)
Sorted(data) ==
  IF data = <<>> THEN <<>> ELSE Insert(Head(data), Sorted(Tail(data)))

Unwrap(vals) == [i \in 1..Len(vals) |-> vals[i][1]]

\* statistics.median(vals) on a list of nullable numbers.  sorted() compares
\* the elements: with two or more elements, one of them None, the
\* comparison raises TypeError.  A single element is returned as it is.
\* The middle of an even number of values is the mean of the two middle
\* ones.
median(vals) ==
  LET n == Len(vals) IN
  IF n = 0 THEN [raised |-> "StatisticsError"]
  ELSE IF n >= 2 /\ \E i \in 1..n : vals[i] = None
    THEN [raised |-> "TypeError"]
  ELSE IF n = 1 THEN [value |-> vals[1]]
  ELSE LET data == Sorted(Unwrap(vals)) IN
       IF n % 2 = 1
         THEN [value |-> Some(data[(n \div 2) + 1])]
         ELSE [value |-> Some((data[n \div 2] + data[(n \div 2) + 1]) \div 2)]

\* safe_round(value, places): None stays None; a number is rounded to
\* `places` decimals.  The numbers of the model are whole multiples of the
\* unit of their field, which rounding leaves as they are.
safe_round(value, places) ==
  IF value = None THEN None ELSE value

\* safe_round(median(vals), places) if vals else None
MedianOrNone(vals, places) ==
  IF vals = <<>> THEN [value |-> None]
  ELSE LET m == median(vals) IN
       IF "raised" \in DOMAIN m THEN m
       ELSE [value |-> safe_round(m.value, places)]

\* the list `vals` of the navigation loop: the value of every run whose
\* navigation dict is truthy and has the key (a None value included)
NavVals(startup, field) ==
  LET keep(run) == /\ Truthy(run.metrics.navigation)
                   /\ field \in DOMAIN run.metrics.navigation[1]
      kept == SelectSeq(startup, keep)
  IN [i \in 1..Len(kept) |-> kept[i].metrics.navigation[1][field]]

\* the list `vals` of the paint loop: the values that are not None
PaintVals(startup, field) ==
  LET keep(run) == /\ Truthy(run.metrics.paint)
                   /\ Get(run.metrics.paint[1], field) # None
      kept == SelectSeq(startup, keep)
  IN [i \in 1..Len(kept) |-> Get(kept[i].metrics.paint[1], field)]

\* the list `vals` of the fps loop: the values that are not None
FpsVals(startup, field) ==
  LET keep(run) == /\ Truthy(run.metrics.startupFps)
                   /\ Get(run.metrics.startupFps[1], field) # None
      kept == SelectSeq(startup, keep)
  IN [i \in 1..Len(kept) |-> kept[i].metrics.startupFps[1][field]]

SeqRange(q) == {q[i] : i \in 1..Len(q)}

\* aggregate_startup(startup_runs): the three summaries, or the exception
\* the first failing median raises
aggregate_startup(startup) ==
  LET nav == [f \in SeqRange(nav_fields) |-> MedianOrNone(NavVals(startup, f), 3)]
      paint == [f \in SeqRange(paint_fields) |-> MedianOrNone(PaintVals(startup, f), 3)]
      fps == [f \in SeqRange(fps_fields) |->
                MedianOrNone(FpsVals(startup, f), IF f = "droppedFrameRatio" THEN 4 ELSE 3)]
      all == {nav[f] : f \in DOMAIN nav} \cup {paint[f] : f \in DOMAIN paint}
               \cup {fps[f] : f \in DOMAIN fps}
  IN IF \E m \in all : "raised" \in DOMAIN m
       THEN [raised |-> "TypeError"]
       ELSE [navigationMsMedian |-> [f \in DOMAIN nav |-> nav[f].value],
             paintMsMedian |-> [f \in DOMAIN paint |-> paint[f].value],
             startupFpsMedian |-> [f \in DOMAIN fps |-> fps[f].value]]

\* ------------------------------------------------- aggregate_transitions
\* Every number is a whole count of the unit its summary is rounded to:
\* thousandths for frame rates and durations, ten-thousandths for ratios
\* (so 1.0 as a ratio is 10000).  reachedExpectedPath is Some(TRUE),
\* Some(FALSE), None (null) or an absent key.
RECURSIVE Sum(_)
Sum(xs) == IF xs = <<>> THEN 0 ELSE Head(xs) + Sum(Tail(xs))

\* statistics.mean(vals): the exact quotient
mean(vals) == [num |-> Sum(Unwrap(vals)), den |-> Len(vals)]

\* round(x) of a non-negative quotient to the nearest whole unit, an exact
\* half going to the even neighbour
RoundHalfEven(num, den) ==
  LET q == num \div den
      r == num % den
  IN IF 2 * r < den THEN q
     ELSE IF 2 * r > den THEN q + 1
     ELSE IF q % 2 = 0 THEN q ELSE q + 1

\* safe_round(mean(vals), places): the quotient rounded to its unit
safe_round_mean(q, places) == Some(RoundHalfEven(q.num, q.den))

\* every transition of every round, in order (the two nested for loops)
RECURSIVE Flatten(_)
Flatten(rs) ==
  IF rs = <<>> THEN <<>> ELSE Head(rs).transitions \o Flatten(Tail(rs))

\* edge_key = f'{transition["from"]}->{transition["to"]}'
edge_key(transition) == transition.from \o "->" \o transition.to

\* by_edge[edge_key] = [metrics]: a later measurement replaces the group
by_edge_overwrite(rs) ==
  LET flat == Flatten(rs)
      keys == {edge_key(flat[i]) : i \in 1..Len(flat)}
      Last(key) == CHOOSE i \in 1..Len(flat) :
                     /\ edge_key(flat[i]) = key
                     /\ \A j \in (i + 1)..Len(flat) : edge_key(flat[j]) # key
  IN [key \in keys |-> <<flat[Last(key)].metrics>>]

\* by_edge after the loops: by_edge.setdefault(edge_key, []).append(metrics)
by_edge(rs) ==
  LET flat == Flatten(rs)
      keys == {edge_key(flat[i]) : i \in 1..Len(flat)}
      HasKey(key) == LET IsKey(t) == edge_key(t) = key IN SelectSeq(flat, IsKey)
  IN [key \in keys |->
        [i \in 1..Len(HasKey(key)) |-> HasKey(key)[i].metrics]]

\* [m[field] for m in metrics_list if m.get(field) is not None]
NotNoneVals(metrics_list, field) ==
  LET keep(m) == Get(m, field) # None
      kept == SelectSeq(metrics_list, keep)
  IN [i \in 1..Len(kept) |-> kept[i][field]]

\* [0.0 if m.get("reachedExpectedPath") is False else 1.0 for m in ...]
ReachIndicators_missingReached(metrics_list) ==
  [i \in 1..Len(metrics_list) |->
     IF Get(metrics_list[i], "reachedExpectedPath") = Some(FALSE)
       THEN Some(0) ELSE Some(10000)]

\* [1.0 if m.get("reachedExpectedPath") else 0.0 for m in metrics_list]
ReachIndicators(metrics_list) ==
  [i \in 1..Len(metrics_list) |->
     IF Get(metrics_list[i], "reachedExpectedPath") = Some(TRUE)
       THEN Some(10000) ELSE Some(0)]

\* safe_round(median(vals), places) if vals else None, for values that are
\* never None
MedianValue(vals, places) == MedianOrNone(vals, places).value

\* summary[edge] of aggregate_transitions
EdgeSummary(metrics_list) ==
  LET fps_vals == NotNoneVals(metrics_list, "avgFps")
      p95_vals == NotNoneVals(metrics_list, "p95FrameMs")
      drop_vals == NotNoneVals(metrics_list, "droppedFrameRatio")
      nav_vals == NotNoneVals(metrics_list, "navigationDurationMs")
      reach_rate == mean(ReachIndicators(metrics_list))
  IN [avgFpsMean |-> IF fps_vals # <<>>
                       THEN safe_round_mean(mean(fps_vals), 3) ELSE None,
      avgFpsMedian |-> MedianValue(fps_vals, 3),
      p95FrameMsMedian |-> MedianValue(p95_vals, 3),
      droppedFrameRatioMedian |-> MedianValue(drop_vals, 4),
      navigationDurationMsMedian |-> MedianValue(nav_vals, 3),
      expectedPathReachRate |-> safe_round_mean(reach_rate, 4),
      samples |-> Len(metrics_list)]

\* aggregate_transitions(transition_rounds)
aggregate_transitions(rs) ==
  LET groups == by_edge(rs) IN
  [edge \in DOMAIN groups |-> EdgeSummary(groups[edge])]

\* The runs the aggregator is applied to.  A navigation entry is None or a
\* dict; the dicts drawn vary in domComplete (absent, None or a number) and
\* loadEventEnd (absent or a number).
TimingValues == {100000, 200000, 400000}
DomCompleteInputs == {None} \cup {Some(v) : v \in TimingValues}
NavDicts ==
  {<<>>}
  \cup {[k \in {"domComplete"} |-> dc] : dc \in DomCompleteInputs}
  \cup {[k \in {"loadEventEnd"} |-> Some(500000)]}
  \cup {[k \in {"domComplete", "loadEventEnd"} |->
           IF k = "domComplete" THEN dc ELSE Some(500000)] : dc \in DomCompleteInputs}
NavInputs == {None} \cup {Some(d) : d \in NavDicts}
PaintInputs ==
  {Some(<<>>),
   Some([k \in {"first-paint", "first-contentful-paint"} |->
           IF k = "first-paint" THEN Some(50000) ELSE Some(60000)])}
FpsInput ==
  Some([k \in {"avgFps", "p95FrameMs", "droppedFrameRatio", "totalFrames",
               "sampleDurationMs"} |->
          CASE k = "avgFps" -> Some(60000)
            [] k = "p95FrameMs" -> Some(17000)
            [] k = "droppedFrameRatio" -> Some(0)
            [] k = "totalFrames" -> Some(180)
            [] OTHER -> Some(3000000)])
RunInputs ==
  {[metrics |-> [navigation |-> n, paint |-> p, startupFps |-> FpsInput]] :
     n \in NavInputs, p \in PaintInputs}

RECURSIVE SeqsUpTo(_, _)
SeqsUpTo(S, n) ==
  IF n = 0 THEN {<<>>}
  ELSE LET shorter == SeqsUpTo(S, n - 1) IN
       shorter \cup {Append(q, x) : q \in {t \in shorter : Len(t) = n - 1}, x \in S}

\* The rounds aggregate_transitions is applied to: measurements of two
\* edges, each a sampler result that reached the path in time, timed out,
\* arrived late, or lacks the indicator; consecutive pairs form a round.
MetricsInputs ==
  LET m(fps, nav, reach) ==
        [k \in {"avgFps", "p95FrameMs", "droppedFrameRatio",
                "navigationDurationMs", "reachedExpectedPath"} |->
           CASE k = "avgFps" -> Some(fps)
             [] k = "p95FrameMs" -> Some(17000)
             [] k = "droppedFrameRatio" -> Some(2500)
             [] k = "navigationDurationMs" -> nav
             [] OTHER -> reach]
  IN {m(60000, Some(120000), Some(TRUE)),
      m(30000, None, Some(FALSE)),
      m(45000, None, Some(TRUE)),
      [k \in {"avgFps", "p95FrameMs", "droppedFrameRatio",
              "navigationDurationMs"} |->
         CASE k = "avgFps" -> Some(60000)
           [] k = "p95FrameMs" -> Some(17000)
           [] k = "droppedFrameRatio" -> Some(0)
           [] OTHER -> Some(80000)]}
EntryInputs ==
  {[from |-> e[1], to |-> e[2], selector |-> e[3], metrics |-> m] :
     e \in {TRANSITIONS[1], TRANSITIONS[2]}, m \in MetricsInputs}

RECURSIVE Chunk(_, _)
Chunk(es, round_no) ==
  IF es = <<>> THEN <<>>
  ELSE IF Len(es) = 1
    THEN <<[round |-> round_no, transitions |-> es]>>
  ELSE <<[round |-> round_no, transitions |-> SubSeq(es, 1, 2)]>>
         \o Chunk(SubSeq(es, 3, Len(es)), round_no + 1)
RoundsInputs == {Chunk(es, 1) : es \in SeqsUpTo(EntryInputs, MaxAggEntries)}

InitAgg ==
  /\ pc = "agg"
  /\ collector = "none"
  /\ startup_runs = 0
  /\ transition_rounds = 0
  /\ run_id = 0 /\ round_id = 0 /\ edge_idx = 0
  /\ runs = <<>> /\ rounds = <<>> /\ transition_entries = <<>>
  /\ exc = "none"
  /\ browsersLaunched = 0 /\ browserOpen = {} /\ browserCloses = 0
  /\ contextsCreated = 0 /\ context = 0 /\ ctxOpen = {} /\ ctxCloseRan = {}
  /\ ctxOwner = <<>>
  /\ ops = NoOps
  /\ path = "blank"
  /\ gateRoute = NULL /\ gateRet = NULL /\ gateSeen = NoGate
  /\ lastReady = NULL
  /\ navigation = None /\ startup_fps = NULL
  /\ matched = NULL /\ clicked = "none" /\ navEnd = NULL /\ result = None
  /\ written = {}
  /\ \/ aggRuns \in SeqsUpTo(RunInputs, MaxAggRuns) /\ aggRounds = <<>>
     \/ aggRuns = <<>> /\ aggRounds \in RoundsInputs
  /\ aggSummary = None
  /\ aggEdges = None
  /\ frameStamps = <<>> /\ sample = None
  /\ SamplerIdle

\* "summary": aggregate_startup(startup_runs)
AggregateStartup ==
  /\ pc = "agg"
  /\ aggSummary' = aggregate_startup(aggRuns)
  /\ pc' = "agg_done"
  /\ UNCHANGED <<collector, argVars, loopVars, listVars, exc, browserVars,
                 ctxVars, ops, pageVars, gateVars, measVars, written, aggRuns,
                 aggRounds, aggEdges, jsVars>>

\* "summaryByRouteEdge": aggregate_transitions(transition_rounds), reached
\* when aggregate_startup has returned
AggregateTransitions ==
  /\ pc = "agg_done"
  /\ "raised" \notin DOMAIN aggSummary
  /\ aggEdges' = aggregate_transitions(aggRounds)
  /\ pc' = "report_built"
  /\ UNCHANGED <<collector, argVars, loopVars, listVars, exc, browserVars,
                 ctxVars, ops, pageVars, gateVars, measVars, written, aggRuns,
                 aggSummary, aggRounds, jsVars>>

NextAgg ==
  \/ AggregateStartup
  \/ AggregateTransitions

SpecAgg == InitAgg /\ [][NextAgg]_vars

\* ------------------------------------------- frame statistics of the samplers
\* FPS_SAMPLE_JS and TRANSITION_FPS_JS derive the same five fields from the
\* frame timestamps they captured.  Timestamps and deltas are whole
\* milliseconds; avgFps, p95FrameMs and sampleDurationMs are whole
\* thousandths (toFixed(3)) and droppedFrameRatio whole ten-thousandths
\* (toFixed(4)).
Max(a, b) == IF a >= b THEN a ELSE b

\* Number((num / den).toFixed(...)) in the unit of the field: the quotient
\* to the nearest whole unit
toFixed(num, den) == (2 * num + den) \div (2 * den)

\* frameDeltas.push(stamps[i] - stamps[i - 1]) for i = 1 .. length - 1
frameDeltas(stamps) ==
  [i \in 1..(Len(stamps) - 1) |-> stamps[i + 1] - stamps[i]]

\* Math.max(0, Math.floor(n * 0.95) - 1)
p95Idx_floor(n) == IF n > 0 THEN Max(0, ((95 * n) \div 100) - 1) ELSE 0

\* p95Idx = n > 0 ? Math.max(0, Math.ceil(n * 0.95) - 1) : 0; for the
\* lengths below 200 the double n * 0.95 has the ceiling of 95n/100
p95Idx(n) == IF n > 0 THEN Max(0, ((95 * n + 99) \div 100) - 1) ELSE 0

\* frameDeltas.filter((d) => d >= 24).length
DroppedCount_inclusive(deltas) ==
  Cardinality({i \in 1..Len(deltas) : deltas[i] >= 24})

\* frameDeltas.filter((d) => d > 24).length
DroppedCount(deltas) ==
  Cardinality({i \in 1..Len(deltas) : deltas[i] > 24})

\* the fields with totalFrames: stamps.length
FrameStats_countStamps(stamps) ==
  LET deltas == frameDeltas(stamps)
      n == Len(deltas)
      duration == Sum(deltas)
      sorted == Sorted(deltas)
  IN [avgFps |-> IF duration > 0 THEN toFixed(n * 1000000, duration) ELSE 0,
      p95FrameMs |-> IF n > 0 THEN 1000 * sorted[p95Idx(n) + 1] ELSE 0,
      droppedFrameRatio |->
        IF n > 0 THEN toFixed(DroppedCount(deltas) * 10000, n) ELSE 0,
      totalFrames |-> Len(stamps),
      sampleDurationMs |-> 1000 * duration]

\* the fields avgFps, p95FrameMs, droppedFrameRatio, totalFrames and
\* sampleDurationMs computed from the captured stamps
FrameStats(stamps) ==
  LET deltas == frameDeltas(stamps)
      n == Len(deltas)
      duration == Sum(deltas)
      sorted == Sorted(deltas)
  IN [avgFps |-> IF duration > 0 THEN toFixed(n * 1000000, duration) ELSE 0,
      p95FrameMs |-> IF n > 0 THEN 1000 * sorted[p95Idx(n) + 1] ELSE 0,
      droppedFrameRatio |->
        IF n > 0 THEN toFixed(DroppedCount(deltas) * 10000, n) ELSE 0,
      totalFrames |-> n,
      sampleDurationMs |-> 1000 * duration]

\* The stamps a sampler may have captured: none, or a first frame followed
\* by up to MaxFrameDeltas frames at the gaps drawn.
DeltaValues == {0, 5, 10, 15, 20, 24, 30}
FirstStamp == 100
StampsOf(deltas) ==
  [i \in 1..(Len(deltas) + 1) |-> FirstStamp + Sum(SubSeq(deltas, 1, i - 1))]
StampInputs ==
  {<<>>} \cup {StampsOf(ds) : ds \in SeqsUpTo(DeltaValues, MaxFrameDeltas)}

InitFrames ==
  /\ pc = "frames"
  /\ collector = "none"
  /\ startup_runs = 0
  /\ transition_rounds = 0
  /\ run_id = 0 /\ round_id = 0 /\ edge_idx = 0
  /\ runs = <<>> /\ rounds = <<>> /\ transition_entries = <<>>
  /\ exc = "none"
  /\ browsersLaunched = 0 /\ browserOpen = {} /\ browserCloses = 0
  /\ contextsCreated = 0 /\ context = 0 /\ ctxOpen = {} /\ ctxCloseRan = {}
  /\ ctxOwner = <<>>
  /\ ops = NoOps
  /\ path = "blank"
  /\ gateRoute = NULL /\ gateRet = NULL /\ gateSeen = NoGate
  /\ lastReady = NULL
  /\ navigation = None /\ startup_fps = NULL
  /\ matched = NULL /\ clicked = "none" /\ navEnd = NULL /\ result = None
  /\ written = {}
  /\ aggRuns = <<>> /\ aggSummary = None
  /\ aggRounds = <<>> /\ aggEdges = None
  /\ frameStamps \in StampInputs
  /\ sample = None
  /\ SamplerIdle

\* FPS_SAMPLE_JS resolves in the step that pushed the last stamp: the first
\* stamp that is durationMs or more after the first one
FpsSampleResolve ==
  /\ pc = "frames"
  /\ frameStamps # <<>>
  /\ \E duration \in 0..(frameStamps[Len(frameStamps)] - frameStamps[1]) :
       \A i \in 1..(Len(frameStamps) - 1) :
         frameStamps[i] - frameStamps[1] < duration
  /\ sample' = Some(FrameStats(frameStamps))
  /\ pc' = "fps_resolved"
  /\ UNCHANGED <<collector, argVars, loopVars, listVars, exc, browserVars,
                 ctxVars, ops, pageVars, gateVars, measVars, written, aggVars,
                 frameStamps, clock, sampleMs, timeoutMs, durationMs, startPath, navStart,
                 navEndAt, wakeAt>>

\* TRANSITION_FPS_JS returns with whatever frames fired during its waits
TransitionFpsReturn ==
  /\ pc = "frames"
  /\ sample' = Some(FrameStats(frameStamps))
  /\ pc' = "tr_returned"
  /\ UNCHANGED <<collector, argVars, loopVars, listVars, exc, browserVars,
                 ctxVars, ops, pageVars, gateVars, measVars, written, aggVars,
                 frameStamps, clock, sampleMs, timeoutMs, durationMs, startPath, navStart,
                 navEndAt, wakeAt>>

NextFrames ==
  \/ FpsSampleResolve
  \/ TransitionFpsReturn

SpecFrames == InitFrames /\ [][NextFrames]_vars


\* ------------------------------------ TRANSITION_FPS_JS, one step at a time
\* One call of the script for the first edge, from the click on.  The script
\* runs to its next await without interruption; while it awaits a timer the
\* clock advances, frames fire and the page may change its pathname.  A timer
\* fires when it is due or up to MaxLateTicks ticks later.
Tick == 16
JsExpectedPath == TRANSITIONS[1][2]
JsPaths == {TRANSITIONS[1][1], TRANSITIONS[1][2], TRANSITIONS[3][2]}
SampleMsInputs == {0, 32, 48}
TimeoutMsInputs == {16, 32}
DurationMsInputs == {0, 16, 32}

InitSampler ==
  /\ pc \in {"js_start", "js_fps_wait"}
  /\ collector = "none"
  /\ startup_runs = 0
  /\ transition_rounds = 0
  /\ run_id = 0 /\ round_id = 0 /\ edge_idx = 0
  /\ runs = <<>> /\ rounds = <<>> /\ transition_entries = <<>>
  /\ exc = "none"
  /\ browsersLaunched = 0 /\ browserOpen = {} /\ browserCloses = 0
  /\ contextsCreated = 0 /\ context = 0 /\ ctxOpen = {} /\ ctxCloseRan = {}
  /\ ctxOwner = <<>>
  /\ ops = NoOps
  /\ path \in JsPaths
  /\ gateRoute = NULL /\ gateRet = NULL /\ gateSeen = NoGate
  /\ lastReady = NULL
  /\ navigation = None /\ startup_fps = NULL
  /\ matched = NULL /\ clicked = "none" /\ navEnd = NULL /\ result = None
  /\ written = {}
  /\ aggRuns = <<>> /\ aggSummary = None
  /\ aggRounds = <<>> /\ aggEdges = None
  /\ frameStamps = <<>> /\ sample = None
  /\ clock = FirstStamp
  /\ IF pc = "js_start"
       THEN /\ sampleMs \in SampleMsInputs
            /\ timeoutMs \in TimeoutMsInputs
            /\ durationMs = 0
       ELSE /\ sampleMs = 0 /\ timeoutMs = 0
            /\ durationMs \in DurationMsInputs
  /\ startPath = NULL /\ navStart = 0 /\ navEndAt = None /\ wakeAt = 0

JsPipeline ==
  <<collector, argVars, loopVars, listVars, exc, browserVars, ctxVars, ops,
    gateVars, measVars, written, aggVars>>

\* startPath = pathname; requestAnimationFrame(frameStep);
\* navStart = performance.now(); target.click(), whose handlers may change
\* the pathname at once; navEnd = null
JsClick ==
  /\ pc = "js_start"
  /\ startPath' = path
  /\ navStart' = clock
  /\ navEndAt' = None
  /\ path' \in JsPaths
  /\ pc' = "js_loop"
  /\ UNCHANGED <<JsPipeline, frameStamps, sample, clock, sampleMs, timeoutMs, durationMs,
                 wakeAt>>

\* while (performance.now() < navDeadline) { if (pathname === expectedPath)
\* { navEnd = performance.now(); break }; await setTimeout 16 }
JsLoopCheck ==
  /\ pc = "js_loop"
  /\ IF clock < navStart + timeoutMs
       THEN IF path = JsExpectedPath
              THEN /\ navEndAt' = Some(clock)
                   /\ pc' = "js_elapsed"
                   /\ UNCHANGED wakeAt
              ELSE /\ wakeAt' = clock + 16
                   /\ pc' = "js_sleep"
                   /\ UNCHANGED navEndAt
       ELSE /\ pc' = "js_elapsed"
            /\ UNCHANGED <<navEndAt, wakeAt>>
  /\ UNCHANGED <<JsPipeline, pageVars, frameStamps, sample, clock, sampleMs,
                 timeoutMs, durationMs, startPath, navStart>>

\* the 16 ms timer of the loop fires
JsSleepWake ==
  /\ pc = "js_sleep"
  /\ clock >= wakeAt
  /\ pc' = "js_loop"
  /\ UNCHANGED <<JsPipeline, pageVars, jsVars>>

\* JsElapsed with a script that returns as soon as the path-change wait is
\* over, without waiting for the rest of the sample window.
JsElapsed_noRest ==
  /\ pc = "js_elapsed"
  /\ pc' = "js_return"
  /\ UNCHANGED <<JsPipeline, pageVars, jsVars>>

\* elapsed = performance.now() - navStart; if (elapsed < sampleMs) await
\* setTimeout(sampleMs - elapsed)
JsElapsed ==
  /\ pc = "js_elapsed"
  /\ LET elapsed == clock - navStart IN
     IF elapsed < sampleMs
       THEN /\ wakeAt' = clock + (sampleMs - elapsed)
            /\ pc' = "js_rest"
       ELSE /\ pc' = "js_return"
            /\ UNCHANGED wakeAt
  /\ UNCHANGED <<JsPipeline, pageVars, frameStamps, sample, clock, sampleMs,
                 timeoutMs, durationMs, startPath, navStart, navEndAt>>

\* the timer of the remaining sample window fires
JsRestWake ==
  /\ pc = "js_rest"
  /\ clock >= wakeAt
  /\ pc' = "js_return"
  /\ UNCHANGED <<JsPipeline, pageVars, jsVars>>

\* captureFrames = false; the frame statistics; return {from, to,
\* expectedTo, navigationDurationMs, reachedExpectedPath, ...}
JsReturn ==
  /\ pc = "js_return"
  /\ LET stats == FrameStats(frameStamps) IN
     sample' = Some([from |-> startPath,
                     to |-> path,
                     expectedTo |-> JsExpectedPath,
                     navigationDurationMs |->
                       IF navEndAt # None
                         THEN Some(1000 * (navEndAt[1] - navStart)) ELSE None,
                     reachedExpectedPath |-> (path = JsExpectedPath),
                     avgFps |-> stats.avgFps,
                     p95FrameMs |-> stats.p95FrameMs,
                     droppedFrameRatio |-> stats.droppedFrameRatio,
                     totalFrames |-> stats.totalFrames,
                     sampleDurationMs |-> stats.sampleDurationMs])
  /\ pc' = "js_returned"
  /\ UNCHANGED <<JsPipeline, pageVars, frameStamps, clock, sampleMs,
                 timeoutMs, durationMs, startPath, navStart, navEndAt, wakeAt>>

Awaiting == pc \in {"js_sleep", "js_rest"}

\* time passes while the script awaits a timer
JsTick ==
  /\ Awaiting
  /\ clock < wakeAt + MaxLateTicks * Tick
  /\ clock' = clock + Tick
  /\ UNCHANGED <<pc, JsPipeline, pageVars, frameStamps, sample, sampleMs,
                 timeoutMs, durationMs, startPath, navStart, navEndAt, wakeAt>>

\* frameStep(ts): frameStamps.push(ts), at most one frame per instant
JsFrame ==
  /\ Awaiting
  /\ IF frameStamps = <<>> THEN TRUE
     ELSE frameStamps[Len(frameStamps)] < clock
  /\ frameStamps' = Append(frameStamps, clock)
  /\ UNCHANGED <<pc, JsPipeline, pageVars, sample, clock, sampleMs, timeoutMs, durationMs,
                 startPath, navStart, navEndAt, wakeAt>>

\* the page's router changes window.location.pathname
JsPathChange ==
  /\ Awaiting
  /\ path' \in JsPaths \ {path}
  /\ UNCHANGED <<pc, JsPipeline, jsVars>>

\* FPS_SAMPLE_JS, one frame at a time: step(ts) pushes the stamp and, when
\* ts - start >= durationMs, resolves with the frame statistics; otherwise
\* it requests the next frame
FpsStep ==
  /\ pc = "js_fps_wait"
  /\ IF frameStamps = <<>> THEN TRUE
     ELSE frameStamps[Len(frameStamps)] < clock
  /\ LET ts == clock
         stamps == Append(frameStamps, ts)
         start == stamps[1]
     IN /\ frameStamps' = stamps
        /\ IF ts - start >= durationMs
             THEN /\ sample' = Some(FrameStats(stamps))
                  /\ pc' = "js_fps_resolved"
             ELSE UNCHANGED <<pc, sample>>
  /\ UNCHANGED <<JsPipeline, pageVars, clock, sampleMs, timeoutMs, durationMs,
                 startPath, navStart, navEndAt, wakeAt>>

\* time passes while FPS_SAMPLE_JS waits for its next frame
FpsTick ==
  /\ pc = "js_fps_wait"
  /\ clock < FirstStamp + durationMs + 2 * MaxLateTicks * Tick
  /\ clock' = clock + Tick
  /\ UNCHANGED <<pc, JsPipeline, pageVars, frameStamps, sample, sampleMs,
                 timeoutMs, durationMs, startPath, navStart, navEndAt, wakeAt>>

NextSampler ==
  \/ FpsStep
  \/ FpsTick
  \/ JsClick
  \/ JsLoopCheck
  \/ JsSleepWake
  \/ JsElapsed
  \/ JsRestWake
  \/ JsReturn
  \/ JsTick
  \/ JsFrame
  \/ JsPathChange

SpecSampler == InitSampler /\ [][NextSampler]_vars

\* The page's event loop runs the script whenever it can continue, and time
\* passes while a timer is pending, so every timer fires.
SpecSamplerLive ==
  /\ SpecSampler
  /\ WF_vars(JsClick) /\ WF_vars(JsLoopCheck) /\ WF_vars(JsSleepWake)
  /\ WF_vars(JsElapsed) /\ WF_vars(JsRestWake) /\ WF_vars(JsReturn)
  /\ WF_vars(JsTick)


\* ================================================================ claims
GatePcs == {"gate_path", "gate_marker", "gate_settle"}
StartupRunPcs == {"su_goto", "su_nav_metrics", "su_fps", "su_record"}
RoundPcs == {"tr_goto", "tr_entries", "tr_edge", "tr_src_goto", "tr_sampler",
             "tr_pathwait", "tr_sample_rest", "tr_check", "tr_append"}
\* a run or round is under way: its context has been created and the host
\* has neither closed it nor left the loop
InRun ==
  \/ collector = "startup" /\ pc \in StartupRunPcs \cup GatePcs
  \/ collector = "transitions" /\ pc \in RoundPcs \cup GatePcs
CurrentIndex == IF collector = "startup" THEN run_id ELSE round_id
\* every measurement recorded so far, in finished rounds and in the current one
RecordedEntries ==
  {transition_entries[k] : k \in 1..Len(transition_entries)}
  \cup UNION {{rounds[i].transitions[k] : k \in 1..Len(rounds[i].transitions)} :
                i \in 1..Len(rounds)}
EdgeOf(entry) == <<entry.from, entry.to, entry.selector>>

\* C1: once a collector has exited (normally or by an exception), every
\* browsing context that was created has had its close() run.
C1_EveryContextClosed ==
  (collector = "none" /\ pc \notin {"main", "agg", "agg_done"})
    => \A c \in 1..contextsCreated : c \in ctxCloseRan

\* C2: a report file exists only when no exception was raised and all
\* startup runs and all transition rounds are complete; an invocation that
\* raised has written nothing.
C2_NoPartialReport ==
  /\ exc # "none" => written = {}
  /\ pc = "aborted" => exc # "none"
  /\ written # {} =>
       /\ pc \in {"write_md", "done"}
       /\ Len(runs) = startup_runs
       /\ Len(rounds) = transition_rounds
       /\ \A i \in 1..Len(rounds) : Len(rounds[i].transitions) = Len(TRANSITIONS)

C2_Witness ==
  /\ pc = "aborted"
  /\ exc \in {"TimeoutError", "RuntimeError"}
  /\ Len(runs) >= 1
  /\ written = {}

\* what follows a sampler error: nothing clicked, the collector raises, the
\* edge is not recorded, its round is not appended, no later edge starts
SamplerErrorIsFatal ==
  /\ clicked = "none"
  /\ pc \in {"tr_check", "tr_finally", "aborted"}
  /\ pc = "tr_check" => result = [error |-> TRUE]
  /\ pc # "tr_check" => exc = "RuntimeError"
  /\ Len(transition_entries) = edge_idx - 1
  /\ Len(rounds) = round_id - 1

\* C3 (as stated): whenever the sampler ran for an edge and the trigger
\* selector matched no visible element (no element, or only hidden ones),
\* the sampler reported an error without clicking and the collector aborts.
C3_NoVisibleTargetIsFatal ==
  matched \in {"none", "hidden"} => SamplerErrorIsFatal

\* C3 (amended): when the trigger selector matches no element at all, the
\* sampler reports an error without clicking, the collector raises, nothing
\* is recorded for the edge and no later edge or round runs; when it matches
\* only hidden elements, the first of them is clicked.
C3_MissingTargetIsFatal ==
  /\ matched = "none" => SamplerErrorIsFatal
  /\ matched = "hidden" => clicked = "hidden"
  /\ matched = "visible" => clicked = "visible"

C3_Witness ==
  /\ matched = "none"
  /\ pc = "aborted"
  /\ exc = "RuntimeError"
  /\ Len(transition_entries) >= 1

\* the sampler returned a measurement whose path-change wait timed out
PathWaitTimedOut ==
  /\ result # None
  /\ ~result.error
  /\ result.navigationDurationMs = NULL

\* C4 (as stated): no recorded measurement has navigationDurationMs = null.
C4_TimedOutNeverRecorded ==
  \A entry \in RecordedEntries : entry.metrics.navigationDurationMs # NULL

\* C4 (amended): a path-change wait that times out is not an error of the
\* sampler (its only error is the missing target); the measurement with
\* navigationDurationMs = null goes to the readiness gate of the destination
\* route, and the invocation aborts only if that gate times out; otherwise
\* the measurement is recorded.
C4_TimeoutLeftToDestinationGate ==
  /\ exc = "RuntimeError" => matched = "none"
  /\ PathWaitTimedOut =>
       \/ pc \in {"tr_check", "tr_append"} /\ exc = "none"
       \/ /\ pc \in GatePcs
          /\ gateRoute = expected_route
          /\ gateRet = "tr_append"
          /\ exc = "none"
       \/ /\ pc \in {"tr_finally", "aborted"}
          /\ exc = "TimeoutError"
          /\ gateRoute = expected_route

C4_Witness ==
  /\ pc = "done"
  /\ written = {"json", "md"}
  /\ \E i \in 1..Len(rounds) : \E k \in 1..Len(rounds[i].transitions) :
       rounds[i].transitions[k].metrics.navigationDurationMs = NULL

\* C5 (as stated): no second browser is launched in an invocation.
C5_SingleBrowser == browsersLaunched <= 1

\* C5 (amended): each collector launches its own browser once, before its
\* first run or round, and closes it once, after its last; the two browsers
\* of an invocation are open one after the other, never together, every
\* startup run happens while the first is open and every transition round
\* while the second is open.
C5_OneBrowserPerCollector ==
  /\ Cardinality(browserOpen) <= 1
  /\ browsersLaunched <= 2
  /\ collector = "startup" => browserOpen = {1} /\ browserCloses = 0
  /\ collector = "transitions" => browserOpen = {2} /\ browserCloses = 1
  /\ collector = "none" => browserOpen = {} /\ browserCloses = browsersLaunched
  /\ ctxOpen # {} => browserOpen # {}
  /\ pc \in {"report", "write_md", "done"} => browsersLaunched = 2

C5_Witness ==
  /\ pc = "done"
  /\ browsersLaunched = 2
  /\ browserCloses = 2
  /\ Len(runs) >= 1
  /\ Len(rounds) >= 1

\* C6: at most one browsing context is open at any moment; a context is
\* created only when none is open; whatever a run or round does, it does in
\* the one open context, which was created for it; no two runs or rounds
\* share a context.
C6_OneContextPerRun ==
  /\ Cardinality(ctxOpen) <= 1
  /\ pc \in {"su_loop", "tr_loop"} => ctxOpen = {}
  /\ InRun => /\ ctxOpen = {context}
              /\ ctxOwner[context] = <<collector, CurrentIndex>>
  /\ \A i \in 1..Len(runs) : ctxOwner[runs[i].context] = <<"startup", i>>
  /\ \A i \in 1..Len(rounds) : ctxOwner[rounds[i].context] = <<"transitions", i>>
  /\ \A c1, c2 \in 1..contextsCreated : ctxOwner[c1] = ctxOwner[c2] => c1 = c2

C6_Witness ==
  /\ collector = "transitions"
  /\ pc = "tr_sampler"
  /\ contextsCreated >= 3
  /\ ctxCloseRan = 1..(contextsCreated - 1)

\* C7 (as stated): when the gate is passed (its second wait passes), the
\* path equals the route and the marker is visible, both at that moment.
C7_PathAndMarkerTogether ==
  pc = "gate_settle" =>
    /\ gateSeen.pathAtMarkerOk = gateRoute
    /\ gateSeen.markerAtMarkerOk = "visible"

\* C7 (amended): wait_for_route_ready(route) returns normally only if the
\* path equalled the route when its first wait passed and the marker had a
\* visible element when its second wait passed (the path is not looked at
\* again then), and only after the settle delay; a wait that times out
\* raises, and the exception ends the collector.
C7_PathThenMarker ==
  /\ pc \in {"gate_marker", "gate_settle"} => gateSeen.pathAtPathOk = gateRoute
  /\ pc = "gate_settle" => gateSeen.markerAtMarkerOk = "visible"
  /\ pc \in {"su_nav_metrics", "tr_entries", "tr_sampler", "tr_append"} =>
       gateRoute = NULL /\ exc = "none"
  /\ exc # "none" => pc \in {"su_finally", "tr_finally", "aborted"}
  /\ exc = "TimeoutError" => gateRoute \in Routes

C7_Witness ==
  /\ pc = "gate_settle"
  /\ gateSeen.pathAtPathOk = gateRoute
  /\ gateSeen.pathAtMarkerOk # gateRoute
  /\ gateSeen.markerAtMarkerOk = "visible"

\* C8: the records of collect_startup_runs carry the run indices 1, 2, ...
\* in order; each run used one context of its own, one navigation, one
\* snapshot and one frame-rate sample; a completed call returns exactly
\* startup_runs records; the k-th context is the k-th run's, so no run is
\* run again after a failure.
C8_StartupRunsOnceInOrder ==
  /\ \A i \in 1..Len(runs) :
       /\ runs[i].run = i
       /\ runs[i].ops = [goto |-> 1, snapshot |-> 1, fps |-> 1]
       /\ runs[i].context = i
  /\ (collector # "startup" /\ pc \notin {"main", "aborted"}) =>
       Len(runs) = startup_runs
  /\ (collector = "startup" /\ pc \in StartupRunPcs \cup GatePcs) =>
       /\ contextsCreated = run_id
       /\ Len(runs) = run_id - 1
  /\ (collector = "startup" /\ pc = "su_loop") =>
       /\ contextsCreated = run_id - 1
       /\ Len(runs) = run_id - 1
  /\ (pc = "aborted" /\ browsersLaunched = 1) =>
       /\ Len(runs) < startup_runs
       /\ contextsCreated = Len(runs) + 1

C8_Witness ==
  /\ pc = "call_transitions"
  /\ Len(runs) >= 2
  /\ Len(runs) = startup_runs

IsNumber(v) == v # None
C10_NullRunsSkipped ==
  pc = "agg_done" =>
    LET all == NavVals(aggRuns, "domComplete")
        numbers == SelectSeq(all, IsNumber)
    IN ((\E i \in 1..Len(all) : all[i] = None) /\ numbers # <<>>) =>
         /\ "raised" \notin DOMAIN aggSummary
         /\ aggSummary.navigationMsMedian["domComplete"] = median(numbers).value

\* the measurements of one edge key among the rounds aggregated
GroupOf(key) ==
  LET IsKey(t) == (t.from \o "->" \o t.to) = key
  IN SelectSeq(Flatten(aggRounds), IsKey)
EdgeKeys ==
  LET flat == Flatten(aggRounds)
  IN {flat[i].from \o "->" \o flat[i].to : i \in 1..Len(flat)}
EdgeFields ==
  [avgFpsMean |-> "avgFps", avgFpsMedian |-> "avgFps",
   p95FrameMsMedian |-> "p95FrameMs",
   droppedFrameRatioMedian |-> "droppedFrameRatio",
   navigationDurationMsMedian |-> "navigationDurationMs"]
HasValue(od, field) ==
  od # None /\ field \in DOMAIN od[1] /\ od[1][field] # None

\* C11: in both aggregators a summary field to which no run or measurement
\* contributes a non-null value is null: the aggregation does not fail and
\* the field's summary is None.
C11_NoContributionIsNull ==
  /\ pc = "agg_done" =>
       \A part \in {"navigation", "paint", "startupFps"} :
         \A f \in SeqRange(CASE part = "navigation" -> nav_fields
                             [] part = "paint" -> paint_fields
                             [] OTHER -> fps_fields) :
           (\A i \in 1..Len(aggRuns) : ~HasValue(aggRuns[i].metrics[part], f))
             => /\ "raised" \notin DOMAIN aggSummary
                /\ aggSummary[CASE part = "navigation" -> "navigationMsMedian"
                                [] part = "paint" -> "paintMsMedian"
                                [] OTHER -> "startupFpsMedian"][f] = None
  /\ pc = "report_built" =>
       \A key \in EdgeKeys : \A s \in DOMAIN EdgeFields :
         (\A i \in 1..Len(GroupOf(key)) :
            ~HasValue(Some(GroupOf(key)[i].metrics), EdgeFields[s]))
           => aggEdges[key][s] = None

\* C12: aggregate_transitions returns exactly one group per distinct
\* from->to key of the input, each group's samples is the number of input
\* measurements with that key, and the samples of all groups sum to the
\* number of measurements.
RECURSIVE SamplesTotal(_, _)
SamplesTotal(summary, keys) ==
  IF keys = {} THEN 0
  ELSE LET k == CHOOSE k \in keys : TRUE
       IN summary[k].samples + SamplesTotal(summary, keys \ {k})
C12_OneGroupPerEdgeKey ==
  pc = "report_built" =>
    /\ DOMAIN aggEdges = EdgeKeys
    /\ \A key \in EdgeKeys : aggEdges[key].samples = Len(GroupOf(key))
    /\ SamplesTotal(aggEdges, DOMAIN aggEdges) = Len(Flatten(aggRounds))
C12_Witness ==
  /\ pc = "report_built"
  /\ Len(Flatten(aggRounds)) = 3
  /\ DOMAIN aggEdges = {"/signin->/signup", "/signup->/signin"}
  /\ aggEdges["/signin->/signup"].samples = 2
  /\ aggEdges["/signup->/signin"].samples = 1

\* C13: every group's expectedPathReachRate is the number of its
\* measurements whose reachedExpectedPath is true over its sample count,
\* to the nearest ten-thousandth; it lies between 0 and 1, is 0.75 for 3 of
\* 4, and a missing or false indicator counts as not reached.
ReachedCount(key) ==
  LET g == GroupOf(key)
  IN Cardinality({i \in 1..Len(g) :
                    /\ "reachedExpectedPath" \in DOMAIN g[i].metrics
                    /\ g[i].metrics["reachedExpectedPath"] = Some(TRUE)})
C13_ReachRateIsFraction ==
  pc = "report_built" =>
    \A key \in EdgeKeys :
      LET n == Len(GroupOf(key))
          reached == ReachedCount(key)
          rate == aggEdges[key].expectedPathReachRate
      IN /\ rate # None
         /\ rate[1] \in 0..10000
         /\ 2 * (rate[1] * n - 10000 * reached) <= n
         /\ 2 * (10000 * reached - rate[1] * n) <= n
         /\ (n = 4 /\ reached = 3) => rate[1] = 7500
C13_Witness ==
  /\ pc = "report_built"
  /\ \E key \in EdgeKeys :
       LET g == GroupOf(key) IN
       /\ Len(g) = 4
       /\ ReachedCount(key) = 3
       /\ \E i \in 1..4 : "reachedExpectedPath" \notin DOMAIN g[i].metrics
       /\ aggEdges[key].expectedPathReachRate = Some(7500)

\* the states in which a sampler has returned its frame statistics
SamplerReturned == pc \in {"fps_resolved", "tr_returned"}
CapturedDeltas ==
  [i \in 1..(Len(frameStamps) - 1) |-> frameStamps[i + 1] - frameStamps[i]]
AllFields ==
  {"avgFps", "p95FrameMs", "droppedFrameRatio", "totalFrames",
   "sampleDurationMs"}

\* C14: a sampler that captured fewer than 2 frame timestamps returns 0 for
\* avgFps, p95FrameMs, droppedFrameRatio, totalFrames and sampleDurationMs,
\* and every field is a number also when the sampled duration is 0 (then
\* avgFps is 0).
C14_FewStampsAllZero ==
  SamplerReturned =>
    /\ \A f \in AllFields : sample[1][f] \in Nat
    /\ Len(frameStamps) < 2 => \A f \in AllFields : sample[1][f] = 0
    /\ frameStamps # <<>> /\ frameStamps[Len(frameStamps)] = frameStamps[1]
         => sample[1].avgFps = 0 /\ sample[1].sampleDurationMs = 0
C14_Witness ==
  /\ pc = "tr_returned"
  /\ Len(frameStamps) = 1
  /\ \A f \in AllFields : sample[1][f] = 0

\* the number of captured deltas strictly above the 24 ms threshold
OverThreshold ==
  Cardinality({i \in 1..Len(CapturedDeltas) : CapturedDeltas[i] > 24})

\* C15 as stated: for a non-empty sequence of deltas droppedFrameRatio is
\* exactly the number of deltas above 24 ms divided by the number of deltas.
C15_DroppedRatioExact ==
  (SamplerReturned /\ Len(CapturedDeltas) > 0) =>
    sample[1].droppedFrameRatio * Len(CapturedDeltas) = 10000 * OverThreshold

\* C15: for a non-empty sequence of deltas droppedFrameRatio is the number
\* of deltas strictly greater than 24 ms divided by the number of deltas,
\* rounded to 4 decimal places; a delta of exactly 24 is not counted, and
\* deltas [10,10,30,10] give 0.25.
C15_DroppedRatioRounded ==
  (SamplerReturned /\ Len(CapturedDeltas) > 0) =>
    LET n == Len(CapturedDeltas)
        ratio == sample[1].droppedFrameRatio
    IN /\ 2 * (ratio * n - 10000 * OverThreshold) <= n
       /\ 2 * (10000 * OverThreshold - ratio * n) <= n
       /\ (\A i \in 1..n : CapturedDeltas[i] <= 24) => ratio = 0
       /\ CapturedDeltas = <<10, 10, 30, 10>> => ratio = 2500
C15_Witness ==
  /\ pc = "tr_returned"
  /\ CapturedDeltas = <<10, 24, 30>>
  /\ sample[1].droppedFrameRatio = 3333

\* C16: for n > 0 deltas p95FrameMs is the element at 0-based index
\* ceil(n*0.95)-1 of the deltas in ascending order, the index lies in
\* 0..n-1, and deltas [5,10,15,20] give index 3 and p95FrameMs 20.
C16_P95IsOrderStatistic ==
  (SamplerReturned /\ Len(CapturedDeltas) > 0) =>
    LET n == Len(CapturedDeltas)
        ceil == CHOOSE c \in 0..n : 100 * c >= 95 * n
                                    /\ 100 * (c - 1) < 95 * n
        idx == ceil - 1
        below(v) == Cardinality({i \in 1..n : CapturedDeltas[i] < v})
        upto(v) == Cardinality({i \in 1..n : CapturedDeltas[i] <= v})
    IN /\ idx \in 0..(n - 1)
       /\ \E i \in 1..n :
            /\ sample[1].p95FrameMs = 1000 * CapturedDeltas[i]
            /\ below(CapturedDeltas[i]) <= idx
            /\ upto(CapturedDeltas[i]) >= idx + 1
       /\ CapturedDeltas = <<5, 10, 15, 20>> =>
            idx = 3 /\ sample[1].p95FrameMs = 20000
C16_Witness ==
  /\ pc = "fps_resolved"
  /\ CapturedDeltas = <<5, 10, 15, 20>>
  /\ sample[1].p95FrameMs = 20000

\* C17: in every result the transition sampler returns, reachedExpectedPath
\* is true if and only if navigationDurationMs is non-null, whatever the
\* pathname did after the path-change wait.
C17_ReachedIffDuration ==
  pc = "js_returned" =>
    (sample[1].reachedExpectedPath <=> sample[1].navigationDurationMs # None)

\* C19 as stated: whenever the transition sampler is invoked for an edge the
\* page is on the edge's source route and the last readiness gate passed
\* since the last page.goto was the one for that route.
C19_SamplerOnReadySourceRoute ==
  [][SamplerClick => (path = source_route /\ lastReady = source_route)]_vars

\* C19: whenever the transition sampler is about to be invoked for an edge,
\* the last readiness gate passed in the context since the last page.goto
\* was the one for the edge's source route.
C19_SamplerAfterSourceGate ==
  pc = "tr_sampler" => lastReady = source_route
C19_Witness ==
  /\ pc = "tr_sampler"
  /\ edge_idx = 2
  /\ lastReady = TRANSITIONS[2][1]
  /\ path # TRANSITIONS[2][1]

\* C20: a measurement is appended only after the sampler returned without
\* error and the readiness gate of the destination route then passed; when
\* that gate times out the measurement is not recorded, the round is not
\* appended, and the collector raises instead of returning.
C20_AppendAfterDestinationGate ==
  /\ pc = "tr_append" =>
       /\ result # None
       /\ ~result.error
       /\ lastReady = expected_route
  /\ (\/ pc \in {"tr_sampler", "tr_pathwait", "tr_sample_rest", "tr_check",
                 "tr_append"}
      \/ pc \in GatePcs /\ gateRet = "tr_append")
       => Len(transition_entries) = edge_idx - 1
  /\ (exc = "TimeoutError" /\ gateRet = "tr_append") =>
       /\ pc \in {"tr_finally", "aborted"}
       /\ Len(transition_entries) = edge_idx - 1
       /\ Len(rounds) = round_id - 1
C20_Witness ==
  /\ pc = "aborted"
  /\ exc = "TimeoutError"
  /\ gateRet = "tr_append"
  /\ edge_idx = 2
  /\ Len(transition_entries) = 1
  /\ rounds = <<>>

\* what holds of the samplers' windows in every state
SamplerWindows ==
  /\ pc \in {"js_fps_wait", "js_fps_resolved"} =>
       \A i \in 1..(Len(frameStamps) - 1) :
         frameStamps[i] - frameStamps[1] < durationMs
  /\ pc = "js_fps_resolved" =>
       /\ frameStamps # <<>>
       /\ frameStamps[Len(frameStamps)] - frameStamps[1] >= durationMs
       /\ sample # None
  /\ pc = "js_sleep" => wakeAt - 16 < navStart + timeoutMs
  /\ pc = "js_returned" => clock - navStart >= sampleMs
  /\ pc = "js_rest" =>
       IF frameStamps = <<>> THEN ENABLED JsFrame
       ELSE frameStamps[Len(frameStamps)] = clock \/ ENABLED JsFrame

\* C21: FPS_SAMPLE_JS resolves on, and only on, the first frame whose stamp
\* is durationMs or more after the first stamp; TRANSITION_FPS_JS returns
\* only when sampleMs or more has passed since the click, sleeps in its loop
\* only before the deadline, keeps capturing frames during the rest of the
\* sample window, and every call that clicked eventually returns.
C21_SamplersKeepTheirWindow ==
  /\ []SamplerWindows
  /\ (pc = "js_start") ~> (pc = "js_returned")
C21_Witness ==
  /\ pc = "js_returned"
  /\ sampleMs = 48
  /\ navEndAt = Some(navStart)
  /\ clock - navStart >= 48
  /\ Len(frameStamps) >= 2
  /\ frameStamps[Len(frameStamps)] > navEndAt[1]

\* C22: every browser a collector launched is closed once that collector
\* has exited, by return or by exception; an exception in flight goes
\* through the collector's finally clause and then ends the invocation with
\* the error still set and no browser open; never are two browsers open at
\* once.
C22_BrowserClosedOnEveryExit ==
  /\ Cardinality(browserOpen) <= 1
  /\ collector = "none" =>
       \A b \in 1..browsersLaunched : b \notin browserOpen
  /\ exc # "none" => pc \in {"su_finally", "tr_finally", "aborted"}
  /\ pc = "su_finally" => browserOpen = {1}
  /\ pc = "tr_finally" => browserOpen = {2}
  /\ pc = "aborted" =>
       /\ exc # "none"
       /\ collector = "none"
       /\ browserOpen = {}
       /\ browserCloses = browsersLaunched
C22_Witness ==
  /\ pc = "aborted"
  /\ exc = "RuntimeError"
  /\ browsersLaunched = 2
  /\ browserCloses = 2
  /\ browserOpen = {}
  /\ Len(runs) = startup_runs

====
